---- MODULE Spec2Model ----
(***************************************************************************)
(* A model of the tile-based interval index of TE_Idx (src/src/idx.rs):    *)
(* build_idx ingests the lines of the data files into a ContigIndex,       *)
(* save_index serialises it, init_search loads the header tables of the    *)
(* index file and ContigIndex::search answers one range query.             *)
(*                                                                         *)
(* Coordinates are scaled down: the tile size is TileSize instead of       *)
(* 16384 and base-pair positions lie in 0..MaxBp.  Vectors are sequences;  *)
(* the code's 0-based indices are kept and converted with +1 at the point  *)
(* of access.  Strings are sequences of non-zero bytes.                    *)
(***************************************************************************)
EXTENDS Integers, Sequences, FiniteSets, TLC

(* ---------------------------- bounds ----------------------------------- *)
\* tile_size of the index (16384 in prep_idx), scaled down
TileSize == 2
\* largest base-pair coordinate of an ingested record (end_bp <= MaxBp)
MaxBp == 5
\* total number of lines ingested over all data files
MaxRecs == 2
\* number of data files handed to build_idx
MaxFiles == 2
\* largest q_end of a query
MaxQ == 7
\* most lines of the data files of the runs with a crowded tile
MaxTileRecs == 4
\* most lines of the data files of the runs with a large index
MaxWideRecs == 6
\* most lines of the input TSV of prep_beds
MaxLines == 4

(* ------------------------ program constants ---------------------------- *)
\* bytes of a contig or file name on disk
NameLen == 40
\* bytes of one ContigRange on disk
RangeBytes == 28
\* bytes of one BGZ_File descriptor on disk
FileBytes == 56
\* bytes of the fixed header: magic, version, tile size, contig and file count
HeaderBytes == 20

\* the number of values of the 32-bit word of the offsets, scaled from 2^32 to
\* 2^9 as the indexes of the runs are scaled: above every offset of the runs with
\* few records, within reach of the runs with many
WordModulus == 512

\* a value kept in a u32: x % 2^32 at scale
U32(x) == x % WordModulus

MAGIC_NUMBER == <<35, 82, 95, 73, 68, 88>>

FORMAT_VERSION == 0

(* ------------------------------ inputs --------------------------------- *)
\* contig names that occur in the data files
ContigNames == {<<1>>, <<2>>}
\* contig names a query may carry: the above and one the index never holds
QueryNames == ContigNames \cup {<<3>>}
\* Option<String>: <<>> is None, <<s>> is Some(s)
None == <<>>
Some(s) == <<s>>
\* values of the 4th whitespace field of a line (family accession, period, suffix),
\* as the sequence of its characters
Families == {<<"D", ".", "1">>}
\* 4th fields of the lines of the filter runs: one period, and two periods behind
\* an accession that begins like the other
Field4s == {<<"A", ".", "1">>, <<"A", "B", ".", "1", ".", "2">>}
\* the q_family arguments of the filter runs
FilterFamilies == {None, Some(<<"A">>), Some(<<"A", "B">>)}
\* last whitespace fields of the lines of the filter runs
FilterFlags == {"0", "1"}
\* values of the last whitespace field of a line
Flags == {"1"}
\* directory listing: the name of the i-th (0-based) data file
FileName(i) == <<100 + i>>
\* fs::metadata of the i-th data file
FileMeta(i) == [mod_time |-> 1000 + i, bytes |-> 500 + i]

(* ------------------------------ helpers -------------------------------- *)
Min(a, b) == IF a < b THEN a ELSE b

Max(a, b) == IF a > b THEN a ELSE b

RECURSIVE SumSeq(_)
SumSeq(s) == IF s = <<>> THEN 0 ELSE Head(s) + SumSeq(Tail(s))

RECURSIVE Flatten(_)
Flatten(ss) == IF ss = <<>> THEN <<>> ELSE Head(ss) \o Flatten(Tail(ss))

Reverse(s) == [i \in 1..Len(s) |-> s[Len(s) + 1 - i]]

VARIABLES
    pc,                \* position in build_idx / search_idx
    files,             \* the data files: files[f+1][p+1] is the line at virtual position p of file f
    fidx,              \* build_idx: index of the data file being ingested
    virt_pos,          \* build_idx: reader position captured before the next line
    tile_size,         \* ContigIndex.tile_size
    bgz_files,         \* ContigIndex.bgz_files
    contig_count,      \* ContigIndex.contig_count
    tile_counts,       \* ContigIndex.tile_counts
    range_counts,      \* ContigIndex.range_counts
    range_data_index,  \* ContigIndex.range_data_index
    contigs,           \* ContigIndex.contigs
    contig_lookup,     \* ContigIndex.contig_lookup
    idx_file,          \* the index file on disk
    query,             \* the arguments of the search
    result,            \* what search returned
    logger,            \* the process has a logger installed (log::set_logger succeeded)
    dir,               \* the data directory: the metadata of each file present, by name
    warnings,          \* the warnings search_idx logged about index and directory
    open_peak,         \* the most data-file readers open at one moment of the last search
    in_tsv,            \* prep_beds: the lines of the input TSV
    line_no,           \* prep_beds: the lines the loop has taken from the input
    current_acc,       \* prep_beds: current_acc
    seen_accs,         \* prep_beds: seen_accs
    out_f,             \* prep_beds: the file out_writer writes to
    target_dir,        \* prep_beds: the files of target_dir, each the lines written to it
    created            \* prep_beds: the names File::create was called with, in order

vars == <<pc, files, fidx, virt_pos, tile_size, bgz_files, contig_count, tile_counts,
          range_counts, range_data_index, contigs, contig_lookup, idx_file, query, result,
          logger, dir, warnings, open_peak,
          in_tsv, line_no, current_acc, seen_accs, out_f, target_dir, created>>

prep_vars == <<in_tsv, line_no, current_acc, seen_accs, out_f, target_dir, created>>

env_vars == <<logger, dir, warnings, open_peak>>

index_vars == <<tile_size, bgz_files, contig_count, tile_counts, range_counts,
                range_data_index, contigs, contig_lookup>>

(* ===================== the builder (build_idx) ========================= *)

\* the empty HashMap is the function with empty domain
EmptyMap == [n \in {} |-> 0]

\* prep_idx: the initial ContigIndex value
PrepIdx ==
    [tile_size |-> TileSize, bgz_files |-> <<>>, contig_count |-> 0,
     contig_lookup |-> EmptyMap, tile_counts |-> <<>>, range_counts |-> <<>>,
     range_data_index |-> <<>>, contigs |-> <<>>]

\* ContigTile::new
NewTile == <<>>

\* get_or_insert_contig without the test of the lookup table: a contig is pushed
\* for every call
GetOrInsertAlways(cs, lk, contig_name) ==
    [contigs |-> Append(cs, [name |-> contig_name, contig_tiles |-> <<>>]),
     contig_lookup |-> [n \in DOMAIN lk \cup {contig_name} |->
                           IF n = contig_name THEN Len(cs) ELSE lk[n]]]

\* get_or_insert_contig: the contig list and lookup table after the call
GetOrInsertContig(cs, lk, contig_name) ==
    IF contig_name \notin DOMAIN lk
    THEN [contigs |-> Append(cs, [name |-> contig_name, contig_tiles |-> <<>>]),
          contig_lookup |-> [n \in DOMAIN lk \cup {contig_name} |->
                                IF n = contig_name THEN Len(cs) ELSE lk[n]]]
    ELSE [contigs |-> cs, contig_lookup |-> lk]

\* tiles pushed up to last_tile_idx + 1, one tile beyond the highest end
PushOneTileMore(tiles, last_tile_idx) ==
    tiles \o [i \in 1..Max(0, (last_tile_idx + 2) - Len(tiles)) |-> <<>>]

\* the tiles of a contig after pushing empty tiles up to and including last_tile_idx
PushMissingTiles(tiles, last_tile_idx) ==
    tiles \o [i \in 1..Max(0, (last_tile_idx + 1) - Len(tiles)) |-> NewTile]

\* first_tile_idx and last_tile_idx of add_contig_range
FirstTileIdx(start_bp, ts) == start_bp \div ts

LastTileIdx(end_bp, ts) == (end_bp - 1) \div ts

\* the tile range with the last tile left out (`first..last` for `first..last + 1`)
RangeTilesExclusive(start_bp, end_bp, ts) ==
    FirstTileIdx(start_bp, ts)..(LastTileIdx(end_bp, ts) - 1)

\* the tiles a range is pushed into: first_tile_idx..(last_tile_idx + 1), exclusive
RangeTiles(start_bp, end_bp, ts) == FirstTileIdx(start_bp, ts)..LastTileIdx(end_bp, ts)

\* add_contig_range: the contig list and lookup table after the call
AddContigRange(cs, lk, ts, contig_name, bed_idx, start_bp, end_bp, bgzf_pos) ==
    LET g == GetOrInsertContig(cs, lk, contig_name)
        ci == g.contig_lookup[contig_name] + 1
        grown == PushMissingTiles(g.contigs[ci].contig_tiles, LastTileIdx(end_bp, ts))
        new_contig_range == [bed_idx |-> bed_idx, start_bp |-> start_bp,
                             end_bp |-> end_bp, bgzf_pos |-> bgzf_pos]
        tiles == [t \in 1..Len(grown) |->
                    IF (t - 1) \in RangeTiles(start_bp, end_bp, ts)
                    THEN Append(grown[t], new_contig_range)
                    ELSE grown[t]]
    IN [contigs |-> [g.contigs EXCEPT ![ci].contig_tiles = tiles],
        contig_lookup |-> g.contig_lookup]

\* an insertion that puts r before the elements of equal key (an unstable sort)
InsertBeforeEqual(sorted, r) ==
    LET k == Cardinality({i \in 1..Len(sorted) : sorted[i].start_bp < r.start_bp})
    IN SubSeq(sorted, 1, k) \o <<r>> \o SubSeq(sorted, k + 1, Len(sorted))

\* sort_by_key(|r| r.start_bp) is a stable sort: r goes after every element
\* whose key is less than or equal to its own
InsertByStart(sorted, r) ==
    LET k == Cardinality({i \in 1..Len(sorted) : sorted[i].start_bp <= r.start_bp})
    IN SubSeq(sorted, 1, k) \o <<r>> \o SubSeq(sorted, k + 1, Len(sorted))

\* the ranges written in ingestion order (the sort left out)
Unsorted(rs) == rs

RECURSIVE SortByStart(_)
SortByStart(rs) ==
    IF rs = <<>> THEN <<>>
    ELSE InsertByStart(SortByStart(SubSeq(rs, 1, Len(rs) - 1)), rs[Len(rs)])

\* a name as written by save_index: 40 bytes, zero padded, cut at 40
EncodeName(name) == [i \in 1..NameLen |-> IF i <= Len(name) THEN name[i] ELSE 0]

\* a name as decoded by init_search: the bytes before the first zero byte
DecodeName(bytes) ==
    LET zeros == {i \in 1..Len(bytes) : bytes[i] = 0}
        first_zero == IF zeros = {} THEN Len(bytes) + 1
                      ELSE CHOOSE i \in zeros : \A j \in zeros : i <= j
    IN SubSeq(bytes, 1, first_zero - 1)

\* save_index: the content of the index file, section by section
SaveIndex(ts, files_, cs) ==
    [magic        |-> MAGIC_NUMBER,
     version      |-> FORMAT_VERSION,
     tile_size    |-> ts,
     contig_count |-> U32(Len(cs)),
     file_count   |-> U32(Len(files_)),
     tile_counts  |-> [c \in 1..Len(cs) |-> U32(Len(cs[c].contig_tiles))],
     range_counts |-> Flatten([c \in 1..Len(cs) |->
                         [t \in 1..Len(cs[c].contig_tiles) |->
                             U32(Len(cs[c].contig_tiles[t]))]]),
     names        |-> [c \in 1..Len(cs) |-> EncodeName(cs[c].name)],
     files        |-> [f \in 1..Len(files_) |->
                         [name |-> EncodeName(files_[f].name),
                          mod_time |-> files_[f].mod_time,
                          bytes |-> files_[f].bytes]],
     ranges       |-> Flatten([c \in 1..Len(cs) |->
                         Flatten([t \in 1..Len(cs[c].contig_tiles) |->
                             SortByStart(cs[c].contig_tiles[t])])])]

\* the temporary file prep_beds opens its first writer on
TempFile == <<"tempfile">>

NoFile == [magic |-> <<>>, version |-> 0, tile_size |-> 0, contig_count |-> 0,
           file_count |-> 0, tile_counts |-> <<>>, range_counts |-> <<>>,
           names |-> <<>>, files |-> <<>>, ranges |-> <<>>]

NoQuery == [contig |-> <<>>, start |-> 0, end |-> 0, family |-> None, nrph |-> FALSE]

NoResult == [kind |-> "none", msg |-> "", lines |-> <<>>, hits |-> <<>>]

\* what a call returns: an error value, or a panic that ends it
Err(msg) == [kind |-> "err", msg |-> msg, lines |-> <<>>, hits |-> <<>>]

Panic(msg) == [kind |-> "panic", msg |-> msg, lines |-> <<>>, hits |-> <<>>]

\* number of lines ingested so far
NumRecs == SumSeq([f \in 1..Len(files) |-> Len(files[f])])

\* prep_beds before its loop, for the input TSV tsv: no accession yet, the writer
\* on a temporary file
PrepBedsStart(tsv) ==
    /\ in_tsv = tsv
    /\ line_no = 0
    /\ current_acc = <<>>
    /\ seen_accs = <<>>
    /\ out_f = TempFile
    /\ target_dir = EmptyMap
    /\ created = <<>>

\* the index and the environment before build_idx
InitIndex ==
    /\ files = <<>>
    /\ fidx = 0
    /\ virt_pos = 0
    /\ tile_size = PrepIdx.tile_size
    /\ bgz_files = PrepIdx.bgz_files
    /\ contig_count = PrepIdx.contig_count
    /\ tile_counts = PrepIdx.tile_counts
    /\ range_counts = PrepIdx.range_counts
    /\ range_data_index = PrepIdx.range_data_index
    /\ contigs = PrepIdx.contigs
    /\ contig_lookup = PrepIdx.contig_lookup
    /\ idx_file = NoFile
    /\ query = NoQuery
    /\ result = NoResult
    /\ logger = FALSE
    /\ dir = EmptyMap
    /\ warnings = {}
    /\ open_peak = 0

Init == pc = "next_file" /\ InitIndex /\ PrepBedsStart(<<>>)

\* build_idx, top of the loop over filenames: record the descriptor, open the reader
OpenFile ==
    /\ pc = "next_file"
    /\ fidx < MaxFiles
    /\ bgz_files' = Append(bgz_files, [name |-> FileName(fidx),
                                       mod_time |-> FileMeta(fidx).mod_time,
                                       bytes |-> FileMeta(fidx).bytes])
    /\ files' = Append(files, <<>>)
    /\ dir' = [n \in DOMAIN dir \cup {FileName(fidx)} |->
                  IF n = FileName(fidx) THEN FileMeta(fidx) ELSE dir[n]]
    /\ virt_pos' = 0
    /\ pc' = "read"
    /\ UNCHANGED <<prep_vars, fidx, tile_size, contig_count, tile_counts, range_counts,
                   range_data_index, contigs, contig_lookup, idx_file, query, result,
                   logger, warnings, open_peak>>

\* the position of the reader after the line, taken for the line just read
LinePositionAfter(before, after) == after

\* build_idx: the position that goes with a line is the one taken from the reader
\* before read_line (before the loop, or at the end of the turn before)
LinePosition(before, after) == before

\* build_idx, one turn of the while loop: read a line, add its range, take the
\* reader position for the next line
IngestLine(contig_name, start_bp, end_bp, fam, nrph) ==
    /\ pc = "read"
    /\ LET a == AddContigRange(contigs, contig_lookup, tile_size, contig_name,
                               fidx, start_bp, end_bp,
                               LinePosition(virt_pos, virt_pos + 1))
       IN /\ contigs' = a.contigs
          /\ contig_lookup' = a.contig_lookup
    /\ files' = [files EXCEPT ![fidx + 1] =
                    Append(@, [contig |-> contig_name, start |-> start_bp,
                               end |-> end_bp, fam |-> fam, nrph |-> nrph])]
    /\ virt_pos' = virt_pos + 1
    /\ UNCHANGED <<prep_vars, pc, fidx, tile_size, bgz_files, contig_count, tile_counts,
                   range_counts, range_data_index, idx_file, query, result, env_vars>>

\* a turn of the while loop, for data files of MaxRecs lines in all
ReadLine(contig_name, start_bp, end_bp, fam, nrph) ==
    /\ NumRecs < MaxRecs
    /\ IngestLine(contig_name, start_bp, end_bp, fam, nrph)

\* build_idx: read_line returned 0, the file is done
EndOfFile ==
    /\ pc = "read"
    /\ fidx' = fidx + 1
    /\ pc' = "next_file"
    /\ UNCHANGED <<prep_vars, files, virt_pos, index_vars, idx_file, query, result, env_vars>>

\* build_idx after the last file: save_index
SaveIndexStep ==
    /\ pc = "next_file"
    /\ idx_file' = SaveIndex(tile_size, bgz_files, contigs)
    /\ pc' = "saved"
    /\ UNCHANGED <<prep_vars, files, fidx, virt_pos, index_vars, query, result, env_vars>>


(* ===================== the loader (init_search) ======================== *)

\* byte offset of the range records in a written index file (layout of save_index)
RangeRegionStart(f) ==
    HeaderBytes + 4 * Len(f.tile_counts) + 4 * Len(f.range_counts)
        + NameLen * Len(f.names) + FileBytes * Len(f.files)

\* range_data_start without the file descriptors (the layout before they were added)
RangeDataStartNoFiles(file_count, contig_count_, tile_counts_) ==
    U32(U32(HeaderBytes + U32(contig_count_ * 44)) + U32(4 * SumSeq(tile_counts_)))

\* init_search: range_data_start, in u32 arithmetic
RangeDataStart(file_count, contig_count_, tile_counts_) ==
    U32(U32(HeaderBytes + U32(file_count * FileBytes) + U32(contig_count_ * 44))
        + U32(4 * SumSeq(tile_counts_)))

\* number of tiles of the contigs before contig_idx (0-based)
TilesBefore(tile_counts_, contig_idx) == SumSeq(SubSeq(tile_counts_, 1, contig_idx))

\* r_counts read from the top of the range-count section for every contig
ReadRangeCountsFromTop(f, tile_counts_, contig_idx) ==
    SubSeq(f.range_counts, 1, tile_counts_[contig_idx + 1])

\* init_search: r_counts of contig_idx, read from the flat range-count section
ReadRangeCounts(f, tile_counts_, contig_idx) ==
    SubSeq(f.range_counts, TilesBefore(tile_counts_, contig_idx) + 1,
           TilesBefore(tile_counts_, contig_idx) + tile_counts_[contig_idx + 1])

\* init_search: tile_start when (contig_idx, tile_idx) is reached, both 0-based
TileStart(f, tile_counts_, contig_idx, tile_idx) ==
    U32(RangeDataStart(f.file_count, f.contig_count, tile_counts_)
        + RangeBytes * SumSeq(SubSeq(f.range_counts, 1,
                                     TilesBefore(tile_counts_, contig_idx) + tile_idx)))

\* init_search: the lookup table after inserting the decoded names in order
RECURSIVE InsertNames(_, _, _)
InsertNames(lk, names, n) ==
    IF n >= Len(names) THEN lk
    ELSE LET string == DecodeName(names[n + 1])
         IN InsertNames([k \in DOMAIN lk \cup {string} |->
                            IF k = string THEN n ELSE lk[k]], names, n + 1)

\* init_search applied to ContigIndex value ci and the index file f
InitSearchOp(ci, f) ==
    [tile_size        |-> f.tile_size,
     contig_count     |-> f.contig_count,
     tile_counts      |-> f.tile_counts,
     range_counts     |-> ci.range_counts \o
                            [c \in 1..f.contig_count |->
                                ReadRangeCounts(f, f.tile_counts, c - 1)],
     range_data_index |-> ci.range_data_index \o
                            [c \in 1..f.contig_count |->
                                [t \in 1..f.tile_counts[c] |->
                                    TileStart(f, f.tile_counts, c - 1, t - 1)]],
     contig_lookup    |-> InsertNames(ci.contig_lookup, f.names, 0),
     bgz_files        |-> ci.bgz_files \o
                            [i \in 1..f.file_count |->
                                [name |-> DecodeName(f.files[i].name),
                                 mod_time |-> f.files[i].mod_time,
                                 bytes |-> f.files[i].bytes]],
     contigs          |-> ci.contigs]

\* search_idx, the checks of the loaded descriptors bgz against the directory
\* listing d: the warnings logged
Verify(bgz, d) ==
    LET names == {bgz[i].name : i \in DOMAIN bgz}
    IN {<<"deleted", bgz[i].name>> : i \in {k \in DOMAIN bgz : bgz[k].name \notin DOMAIN d}}
       \cup {<<"bytes", bgz[i].name>> :
                 i \in {k \in DOMAIN bgz : /\ bgz[k].name \in DOMAIN d
                                            /\ d[bgz[k].name].bytes # bgz[k].bytes}}
       \cup {<<"mod_time", bgz[i].name>> :
                 i \in {k \in DOMAIN bgz : /\ bgz[k].name \in DOMAIN d
                                            /\ d[bgz[k].name].bytes = bgz[k].bytes
                                            /\ d[bgz[k].name].mod_time # bgz[k].mod_time}}
       \cup {<<"added", n>> : n \in DOMAIN d \ names}

\* search_idx up to the search: install the logger, load the index file into a
\* ContigIndex fresh from prep_idx, compare its descriptors with the directory
InitSearch ==
    /\ pc = "saved"
    /\ logger' = TRUE
    /\ IF logger \/ idx_file = NoFile
       THEN /\ result' = IF logger THEN Panic("SetLoggerError")
                                   ELSE Panic("Error Opening File")
            /\ pc' = "search_panic"
            /\ UNCHANGED <<index_vars, warnings>>
       ELSE LET ci == InitSearchOp(PrepIdx, idx_file)
            IN /\ tile_size' = ci.tile_size
               /\ contig_count' = ci.contig_count
               /\ tile_counts' = ci.tile_counts
               /\ range_counts' = ci.range_counts
               /\ range_data_index' = ci.range_data_index
               /\ contig_lookup' = ci.contig_lookup
               /\ bgz_files' = ci.bgz_files
               /\ contigs' = ci.contigs
               /\ warnings' = Verify(ci.bgz_files, dir)
               /\ pc' = "loaded"
               /\ UNCHANGED result
    /\ UNCHANGED <<prep_vars, files, fidx, virt_pos, idx_file, query, dir, open_peak>>


(* ====================== the query (search) ============================= *)

\* read_tile: whether read_exact finds range_count whole records at byte_pos
ReadTileOk(f, byte_pos, range_count) ==
    /\ byte_pos >= RangeRegionStart(f)
    /\ (byte_pos - RangeRegionStart(f)) % RangeBytes = 0
    /\ (byte_pos - RangeRegionStart(f)) \div RangeBytes + range_count <= Len(f.ranges)

\* read_tile: the contig_ranges decoded from the bytes at range_data_index[contig][tile]
ReadTile(f, rc, rdi, contig, tile) ==
    LET range_count == rc[contig + 1][tile + 1]
        byte_pos == rdi[contig + 1][tile + 1]
        k == (byte_pos - RangeRegionStart(f)) \div RangeBytes
    IN SubSeq(f.ranges, k + 1, k + range_count)

\* str::split: the pieces of s between the occurrences of sep, cur being the piece
\* under way
RECURSIVE Split(_, _, _)
Split(s, sep, cur) ==
    IF s = <<>> THEN <<cur>>
    ELSE IF Head(s) = sep
         THEN <<cur>> \o Split(Tail(s), sep, <<>>)
         ELSE Split(Tail(s), sep, Append(cur, Head(s)))

\* filter_line with the family compared to the whole 4th field
FilterLineWholeField(line, q_family, q_nrph) ==
    /\ q_family # None => q_family[1] = line.fam
    /\ q_nrph => line.nrph = "1"

\* filter_line: line.fam is fields[3], line.nrph is fields.last() of the line
FilterLine(line, q_family, q_nrph) ==
    /\ q_family # None => q_family[1] = Split(line.fam, ".", <<>>)[1]
    /\ q_nrph => line.nrph = "1"

\* the binary search with `<=` for `<` in the test of the middle range
RECURSIVE BinarySearchLE(_, _, _, _)
BinarySearchLE(range_data, left, right, q_end) ==
    IF left < right
    THEN LET mid == (left + right) \div 2
         IN IF range_data[mid + 1].start_bp <= q_end
            THEN BinarySearchLE(range_data, mid + 1, right, q_end)
            ELSE BinarySearchLE(range_data, left, mid, q_end)
    ELSE left

\* the binary search of the first-tile pass: the value of left when the loop ends
RECURSIVE BinarySearch(_, _, _, _)
BinarySearch(range_data, left, right, q_end) ==
    IF left < right
    THEN LET mid == (left + right) \div 2
         IN IF range_data[mid + 1].start_bp < q_end
            THEN BinarySearch(range_data, mid + 1, right, q_end)
            ELSE BinarySearch(range_data, left, mid, q_end)
    ELSE left

\* the backward walk cut short after the range just below left
WalkBackOne(range_data, n, q_end) ==
    IF n = 0 THEN <<>>
    ELSE IF range_data[n].start_bp < q_end THEN <<range_data[n]>> ELSE <<>>

\* the loop `for r_idx in (0..left).rev()`: ranges pushed from r_idx = n - 1 downwards
RECURSIVE WalkBack(_, _, _)
WalkBack(range_data, n, q_end) ==
    IF n = 0 THEN <<>>
    ELSE IF range_data[n].start_bp < q_end
         THEN <<range_data[n]>> \o WalkBack(range_data, n - 1, q_end)
         ELSE <<>>

\* first-tile pass: the ranges whose lines are fetched, in fetch order
FirstTilePass(range_data, range_count, q_end) ==
    IF range_data[1].start_bp < q_end
    THEN Reverse(WalkBack(range_data, BinarySearch(range_data, 0, range_count, q_end), q_end))
    ELSE <<>>

\* the loop of a later tile without the skip of ranges that start before the tile
RECURSIVE ScanTileNoSkip(_, _, _, _, _)
ScanTileNoSkip(range_data, r_idx, range_count, tile_start_bp, q_end) ==
    IF r_idx >= range_count THEN <<>>
    ELSE IF range_data[r_idx + 1].start_bp < q_end
         THEN <<range_data[r_idx + 1]>>
                  \o ScanTileNoSkip(range_data, r_idx + 1, range_count, tile_start_bp, q_end)
         ELSE <<>>

\* the loop `for r_idx in 0..range_count` of a later tile, from r_idx (0-based) on
RECURSIVE ScanTile(_, _, _, _, _)
ScanTile(range_data, r_idx, range_count, tile_start_bp, q_end) ==
    IF r_idx >= range_count THEN <<>>
    ELSE IF range_data[r_idx + 1].start_bp < tile_start_bp
         THEN ScanTile(range_data, r_idx + 1, range_count, tile_start_bp, q_end)
         ELSE IF range_data[r_idx + 1].start_bp < q_end
              THEN <<range_data[r_idx + 1]>>
                       \o ScanTile(range_data, r_idx + 1, range_count, tile_start_bp, q_end)
              ELSE <<>>

\* one tile of the middle-and-last-tile pass
LaterTilePass(range_data, range_count, tile_start_bp, q_end) ==
    IF range_count > 0 /\ range_data[1].start_bp < q_end
    THEN ScanTile(range_data, 0, range_count, tile_start_bp, q_end)
    ELSE <<>>

\* the tiles search reads: start_tile, and the later ones only when it holds ranges
TilesRead(rc, c, start_tile, end_tile) ==
    IF start_tile + 1 \in DOMAIN rc[c + 1] /\ rc[c + 1][start_tile + 1] > 0
    THEN start_tile..Max(start_tile, end_tile)
    ELSE {start_tile}

\* the line at virtual position bgzf_pos of data file bed_idx
LineAt(range) == files[range.bed_idx + 1][range.bgzf_pos + 1]

Ok(hits) == [kind |-> "ok", msg |-> "", lines |-> [i \in 1..Len(hits) |-> LineAt(hits[i])],
             hits |-> hits]

\* the start tile of a query is refused when it lies beyond the tile count
StartOutside(start_tile, tile_count) == start_tile > tile_count

\* end_tile left as computed from q_end (the clamp left out)
Unclamped(end_tile, tile_count) == end_tile

\* end_tile after the clamp to the last tile of the contig
ClampEndTile(end_tile, tile_count) == Min(end_tile, tile_count - 1)

\* the ranges search fetches once the start tile is known to hold ranges
ScanTiles(f, rc, rdi, ts, c, start_tile, end_tile, q_end) ==
    FirstTilePass(ReadTile(f, rc, rdi, c, start_tile), rc[c + 1][start_tile + 1], q_end)
    \o Flatten([i \in 1..Max(0, end_tile - start_tile) |->
                  LaterTilePass(ReadTile(f, rc, rdi, c, start_tile + i),
                                rc[c + 1][start_tile + i + 1],
                                ts * (start_tile + i), q_end)])

\* File::open of the data file a range points into succeeds: the file named by
\* the descriptor is in the data directory d
FileOpens(d, f, range) == DecodeName(f.files[range.bed_idx + 1].name) \in DOMAIN d

\* ContigIndex::search on the loaded index, over data directory d: what the caller gets
Search(d, f, ts, lk, tc, rc, rdi, q_contig, q_start, q_end, q_family, q_nrph) ==
    IF q_contig \notin DOMAIN lk
    THEN Panic("called Option::unwrap() on a None value")
    ELSE LET q_contig_idx == lk[q_contig]
             start_tile == q_start \div ts
             end_tile == ClampEndTile((q_end - 1) \div ts, tc[q_contig_idx + 1])
             read == TilesRead(rc, q_contig_idx, start_tile, end_tile)
         IN IF StartOutside(start_tile, tc[q_contig_idx + 1])
            THEN Err("Start Position Outside Of Indexed Size")
            ELSE IF \E t \in read : t + 1 \notin DOMAIN rc[q_contig_idx + 1]
            THEN Panic("index out of bounds")
            ELSE IF \E t \in read : /\ rc[q_contig_idx + 1][t + 1] > 0
                                      /\ ~ReadTileOk(f, rdi[q_contig_idx + 1][t + 1],
                                                     rc[q_contig_idx + 1][t + 1])
            THEN Panic("failed to fill whole buffer")
            ELSE IF rc[q_contig_idx + 1][start_tile + 1] = 0
            THEN Ok(<<>>)
            ELSE LET fetched == ScanTiles(f, rc, rdi, ts, q_contig_idx, start_tile,
                                          end_tile, q_end)
                 IN IF \E i \in 1..Len(fetched) : ~FileOpens(d, f, fetched[i])
                    THEN Panic("No such file or directory")
                    ELSE Ok(SelectSeq(fetched,
                                      LAMBDA r : FilterLine(LineAt(r), q_family, q_nrph)))

\* a directory that holds every data file the index file describes
EveryFile(f) == [n \in {DecodeName(f.files[i].name) : i \in 1..Len(f.files)} |-> 0]

\* the ranges search opens a data-file reader for, in order: those it fetches,
\* up to the first whose file does not open
FetchList(d, f, ts, lk, tc, rc, rdi, q_contig, q_start, q_end) ==
    LET all == Search(EveryFile(f), f, ts, lk, tc, rc, rdi, q_contig, q_start, q_end,
                      None, FALSE)
        list == IF all.kind = "ok" THEN all.hits ELSE <<>>
        stop == {i \in 1..Len(list) : ~FileOpens(d, f, list[i])}
    IN IF stop = {} THEN list
       ELSE SubSeq(list, 1, (CHOOSE i \in stop : \A j \in stop : i <= j) - 1)

\* readers collected and released together when search returns
ReaderEventsHeld(fetched) ==
    [i \in 1..Len(fetched) |-> "open"] \o [i \in 1..Len(fetched) |-> "close"]

\* the reader of a fetch is a local of the loop body: opened, used, and dropped
\* at the end of the turn
ReaderEvents(fetched) ==
    Flatten([i \in 1..Len(fetched) |-> <<"open", "close">>])

\* the most readers open after any prefix of the events
PeakOpen(events) ==
    LET open_after(n) == Cardinality({i \in 1..n : events[i] = "open"})
                             - Cardinality({i \in 1..n : events[i] = "close"})
    IN CHOOSE k \in 0..Len(events) :
           /\ \E n \in 0..Len(events) : open_after(n) = k
           /\ \A n \in 0..Len(events) : open_after(n) <= k

\* the ContigIndex value as a record
CurrentIndex ==
    [tile_size |-> tile_size, contig_count |-> contig_count, tile_counts |-> tile_counts,
     range_counts |-> range_counts, range_data_index |-> range_data_index,
     contig_lookup |-> contig_lookup, bgz_files |-> bgz_files, contigs |-> contigs]

\* search leaving the index as a fresh load of the index file leaves it
SearchReloads(ci, f) == InitSearchOp(ci, f)

\* ContigIndex::search and read_tile on index value ci with index file f: what
\* they leave of ci (they read its fields and assign none)
SearchIndexEffect(ci, f) == ci

\* search_idx, second half: search the loaded index
SearchStep(q_contig, q_start, q_end, q_family, q_nrph) ==
    /\ pc = "loaded"
    /\ query' = [contig |-> q_contig, start |-> q_start, end |-> q_end,
                 family |-> q_family, nrph |-> q_nrph]
    /\ result' = Search(dir, idx_file, tile_size, contig_lookup, tile_counts, range_counts,
                        range_data_index, q_contig, q_start, q_end, q_family, q_nrph)
    /\ open_peak' = PeakOpen(ReaderEvents(
                        FetchList(dir, idx_file, tile_size, contig_lookup, tile_counts,
                                  range_counts, range_data_index, q_contig, q_start, q_end)))
    /\ LET ci == SearchIndexEffect(CurrentIndex, idx_file)
       IN /\ tile_size' = ci.tile_size
          /\ contig_count' = ci.contig_count
          /\ tile_counts' = ci.tile_counts
          /\ range_counts' = ci.range_counts
          /\ range_data_index' = ci.range_data_index
          /\ contig_lookup' = ci.contig_lookup
          /\ bgz_files' = ci.bgz_files
          /\ contigs' = ci.contigs
    /\ pc' = "done"
    /\ UNCHANGED <<prep_vars, files, fidx, virt_pos, idx_file, logger, dir, warnings>>

(* ========================== specification ============================== *)

\* lines of the data files: contig, start <= end, end >= 1 (end = 0 is invalid input)
Next ==
    \/ OpenFile
    \/ \E contig_name \in ContigNames, start_bp \in 0..MaxBp, end_bp \in 1..MaxBp,
          fam \in Families, nrph \in Flags :
           /\ start_bp <= end_bp
           /\ ReadLine(contig_name, start_bp, end_bp, fam, nrph)
    \/ EndOfFile
    \/ SaveIndexStep
    \/ InitSearch
    \/ \E q_contig \in QueryNames, q_start \in 0..MaxQ, q_end \in 1..MaxQ :
           /\ q_start < q_end
           /\ SearchStep(q_contig, q_start, q_end, None, FALSE)

Spec == Init /\ [][Next]_vars

\* the filter runs: one contig, one-base records in the first tiles, lines of
\* several families and flags, queries with and without the two filters
NextFilter ==
    \/ OpenFile
    \/ \E start_bp \in 0..TileSize, fam \in Field4s, nrph \in FilterFlags :
           ReadLine(<<1>>, start_bp, start_bp + 1, fam, nrph)
    \/ EndOfFile
    \/ SaveIndexStep
    \/ InitSearch
    \/ \E q_start \in 0..TileSize, q_end \in 1..MaxQ,
          q_family \in FilterFamilies, q_nrph \in BOOLEAN :
           /\ q_start < q_end
           /\ SearchStep(<<1>>, q_start, q_end, q_family, q_nrph)

SpecFilter == Init /\ [][NextFilter]_vars

(* --------------- failures, the data directory, later queries ------------ *)

\* build_idx: fs::metadata or File::open of the next data file fails, unwrap panics
OpenFileFails ==
    /\ pc = "next_file"
    /\ fidx < MaxFiles
    /\ pc' = "build_panic"
    /\ UNCHANGED <<prep_vars, files, fidx, virt_pos, index_vars, idx_file, query, result, env_vars>>

\* build_idx: read_line fails, or a coordinate of the line does not parse: unwrap panics
ReadLineFails ==
    /\ pc = "read"
    /\ NumRecs < MaxRecs
    /\ pc' = "build_panic"
    /\ UNCHANGED <<prep_vars, files, fidx, virt_pos, index_vars, idx_file, query, result, env_vars>>

\* build_idx after the last file: File::create fails in save_index, which returns
\* the error; build_idx drops it (`let _ =`) and returns
SaveIndexCreateFails ==
    /\ pc = "next_file"
    /\ idx_file' = NoFile
    /\ pc' = "saved"
    /\ UNCHANGED <<prep_vars, files, fidx, virt_pos, index_vars, query, result, env_vars>>

\* build_idx after the last file: a write of save_index fails once `written` ranges
\* are on disk; save_index returns the error, build_idx drops it and returns
SaveIndexWriteFails(written) ==
    /\ pc = "next_file"
    /\ LET f == SaveIndex(tile_size, bgz_files, contigs)
       IN /\ written < Len(f.ranges)
          /\ idx_file' = [f EXCEPT !.ranges = SubSeq(f.ranges, 1, written)]
    /\ pc' = "saved"
    /\ UNCHANGED <<prep_vars, files, fidx, virt_pos, index_vars, query, result, env_vars>>

\* between build and query, data file i is removed from the directory
DeleteFile(i) ==
    /\ pc = "saved"
    /\ FileName(i) \in DOMAIN dir
    /\ dir' = [n \in DOMAIN dir \ {FileName(i)} |-> dir[n]]
    /\ UNCHANGED <<prep_vars, pc, files, fidx, virt_pos, index_vars, idx_file, query, result,
                   logger, warnings, open_peak>>

\* between build and query, data file i gets a later modification time
TouchFile(i) ==
    /\ pc = "saved"
    /\ FileName(i) \in DOMAIN dir
    /\ dir[FileName(i)] = FileMeta(i)
    /\ dir' = [dir EXCEPT ![FileName(i)].mod_time = @ + 1]
    /\ UNCHANGED <<prep_vars, pc, files, fidx, virt_pos, index_vars, idx_file, query, result,
                   logger, warnings, open_peak>>

\* between build and query, bytes are appended to data file i (the lines the
\* index points at stay where they were)
GrowFile(i) ==
    /\ pc = "saved"
    /\ FileName(i) \in DOMAIN dir
    /\ dir[FileName(i)] = FileMeta(i)
    /\ dir' = [dir EXCEPT ![FileName(i)].bytes = @ + 1, ![FileName(i)].mod_time = @ + 1]
    /\ UNCHANGED <<prep_vars, pc, files, fidx, virt_pos, index_vars, idx_file, query, result,
                   logger, warnings, open_peak>>

\* between build and query, a file the index does not know appears in the directory
AddFile ==
    /\ pc = "saved"
    /\ FileName(MaxFiles) \notin DOMAIN dir
    /\ dir' = [n \in DOMAIN dir \cup {FileName(MaxFiles)} |->
                  IF n = FileName(MaxFiles) THEN FileMeta(MaxFiles) ELSE dir[n]]
    /\ UNCHANGED <<prep_vars, pc, files, fidx, virt_pos, index_vars, idx_file, query, result,
                   logger, warnings, open_peak>>

\* search_idx called again in the process that has finished a query
SearchIdxAgain(q_contig, q_start, q_end, q_family, q_nrph) ==
    /\ pc \in {"done", "done_again"}
    /\ logger' = TRUE
    /\ query' = [contig |-> q_contig, start |-> q_start, end |-> q_end,
                 family |-> q_family, nrph |-> q_nrph]
    /\ IF logger \/ idx_file = NoFile
       THEN /\ result' = IF logger THEN Panic("SetLoggerError")
                                   ELSE Panic("Error Opening File")
            /\ UNCHANGED <<index_vars, warnings, open_peak>>
       ELSE LET ci == InitSearchOp(PrepIdx, idx_file)
            IN /\ tile_size' = ci.tile_size
               /\ contig_count' = ci.contig_count
               /\ tile_counts' = ci.tile_counts
               /\ range_counts' = ci.range_counts
               /\ range_data_index' = ci.range_data_index
               /\ contig_lookup' = ci.contig_lookup
               /\ bgz_files' = ci.bgz_files
               /\ contigs' = ci.contigs
               /\ warnings' = Verify(ci.bgz_files, dir)
               /\ open_peak' = PeakOpen(ReaderEvents(
                                   FetchList(dir, idx_file, ci.tile_size, ci.contig_lookup,
                                             ci.tile_counts, ci.range_counts,
                                             ci.range_data_index, q_contig, q_start,
                                             q_end)))
               /\ result' = Search(dir, idx_file, ci.tile_size, ci.contig_lookup,
                                   ci.tile_counts, ci.range_counts, ci.range_data_index,
                                   q_contig, q_start, q_end, q_family, q_nrph)
    /\ pc' = "done_again"
    /\ UNCHANGED <<prep_vars, files, fidx, virt_pos, idx_file, dir>>

\* build_idx, the loop over the lines of data file file_idx from line p (1-based) on
RECURSIVE IngestLines(_, _, _, _, _, _)
IngestLines(cs, lk, ts, lines, file_idx, p) ==
    IF p > Len(lines) THEN [contigs |-> cs, contig_lookup |-> lk]
    ELSE LET a == AddContigRange(cs, lk, ts, lines[p].contig, file_idx, lines[p].start,
                                 lines[p].end, LinePosition(p - 1, p))
         IN IngestLines(a.contigs, a.contig_lookup, ts, lines, file_idx, p + 1)

\* build_idx, the loop over the data files fs from file file_idx (0-based) on: the
\* ContigIndex value it makes of ci
RECURSIVE BuildIdx(_, _, _)
BuildIdx(ci, fs, file_idx) ==
    IF file_idx >= Len(fs) THEN ci
    ELSE LET a == IngestLines(ci.contigs, ci.contig_lookup, ci.tile_size,
                              fs[file_idx + 1], file_idx, 1)
         IN BuildIdx([ci EXCEPT !.bgz_files = Append(@, [name |-> FileName(file_idx),
                                                        mod_time |-> FileMeta(file_idx).mod_time,
                                                        bytes |-> FileMeta(file_idx).bytes]),
                                !.contigs = a.contigs,
                                !.contig_lookup = a.contig_lookup],
                     fs, file_idx + 1)

\* build_idx called again, on the ContigIndex value the first call left and over
\* the same data files
BuildIdxAgain ==
    /\ pc = "saved"
    /\ LET ci == BuildIdx(CurrentIndex, files, 0)
       IN /\ bgz_files' = ci.bgz_files
          /\ contigs' = ci.contigs
          /\ contig_lookup' = ci.contig_lookup
          /\ idx_file' = SaveIndex(ci.tile_size, ci.bgz_files, ci.contigs)
    /\ fidx' = Len(files)
    /\ pc' = "rebuilt"
    /\ UNCHANGED <<prep_vars, files, virt_pos, tile_size, contig_count, tile_counts, range_counts,
                   range_data_index, query, result, env_vars>>

\* the runs with failures: one contig, one-base records in the first tiles
NextEnv ==
    \/ OpenFile
    \/ OpenFileFails
    \/ \E start_bp \in 0..TileSize, fam \in Families, nrph \in Flags :
           ReadLine(<<1>>, start_bp, start_bp + 1, fam, nrph)
    \/ ReadLineFails
    \/ EndOfFile
    \/ SaveIndexStep
    \/ SaveIndexCreateFails
    \/ BuildIdxAgain
    \/ \E written \in 0..(MaxRecs - 1) : SaveIndexWriteFails(written)
    \/ \E i \in 0..(MaxFiles - 1) : DeleteFile(i)
    \/ \E i \in 0..(MaxFiles - 1) : TouchFile(i)
    \/ \E i \in 0..(MaxFiles - 1) : GrowFile(i)
    \/ AddFile
    \/ InitSearch
    \/ \E q_start \in 0..TileSize, q_end \in 1..(TileSize + 1) :
           /\ q_start < q_end
           /\ SearchStep(<<1>>, q_start, q_end, None, FALSE)
    \/ \E q_start \in 0..TileSize, q_end \in 1..(TileSize + 1) :
           /\ q_start < q_end
           /\ SearchIdxAgain(<<1>>, q_start, q_end, None, FALSE)

SpecEnv == Init /\ [][NextEnv]_vars

(* ------------------------ runs with a large index ----------------------- *)

\* a turn of the while loop, for data files of MaxWideRecs lines in all, every
\* line a record of contig <<1>> that starts in the first tile and ends in the third
ReadLineWide(start_bp) ==
    /\ NumRecs < MaxWideRecs
    /\ \E fam \in Families, nrph \in Flags :
           IngestLine(<<1>>, start_bp, 2 * TileSize + 1, fam, nrph)

\* the runs with a large index: build, save and load
NextWide ==
    \/ OpenFile
    \/ \E start_bp \in 0..(TileSize - 1) : ReadLineWide(start_bp)
    \/ EndOfFile
    \/ SaveIndexStep
    \/ InitSearch

SpecWide == Init /\ [][NextWide]_vars

(* ------------------------- runs with long names ------------------------- *)

\* a contig name of NameLen + 1 bytes: NameLen bytes 7, then byte k
LongName(k) == [i \in 1..(NameLen + 1) |-> IF i <= NameLen THEN 7 ELSE k]

\* the contig names of the data files of these runs: a short one, and two long
\* ones that differ in their last byte only
LongContigNames == {<<1>>, LongName(1), LongName(2)}

\* a turn of the while loop, for data files whose lines name long contigs too
ReadLineNamed(contig_name, start_bp, end_bp) ==
    /\ NumRecs < MaxRecs
    /\ \E fam \in Families, nrph \in Flags :
           IngestLine(contig_name, start_bp, end_bp, fam, nrph)

\* the runs with long names: build, save and load
NextNames ==
    \/ OpenFile
    \/ \E contig_name \in LongContigNames, start_bp \in 0..MaxBp :
           \E end_bp \in (start_bp + 1)..MaxBp :
               ReadLineNamed(contig_name, start_bp, end_bp)
    \/ EndOfFile
    \/ SaveIndexStep
    \/ InitSearch

SpecNames == Init /\ [][NextNames]_vars

(* ------------------------------- prep_beds ------------------------------ *)

\* the accessions of the input TSVs
Accessions == {"A", "B", "C"}

\* a line of a masks export: accession, start, end, repeat string and repeat length,
\* with sep between the first two fields and tabs between the others
MaskLine(acc, sep, start) == <<acc, sep, start, "\t", "9", "\t", "r", "\t", "1">>

\* a comment line
CommentLine == <<"#", "c">>

\* the lines an input TSV is made of
InputLines ==
    {CommentLine} \cup {MaskLine(acc, "\t", "1") : acc \in Accessions}
                  \cup {MaskLine(acc, " ", "2") : acc \in Accessions}

\* the input TSVs of at most n lines
RECURSIVE TsvsUpTo(_)
TsvsUpTo(n) ==
    IF n = 0 THEN {<<>>}
    ELSE LET shorter == TsvsUpTo(n - 1)
         IN shorter \cup {Append(tsv, line) : tsv \in shorter, line \in InputLines}

\* line.starts_with('#')
StartsWithHash(line) == line # <<>> /\ Head(line) = "#"

\* line.split_whitespace(): the maximal runs of characters other than white space
RECURSIVE SplitWhitespace(_, _)
SplitWhitespace(s, cur) ==
    IF s = <<>> THEN (IF cur = <<>> THEN <<>> ELSE <<cur>>)
    ELSE IF Head(s) \in {" ", "\t"}
         THEN (IF cur = <<>> THEN <<>> ELSE <<cur>>) \o SplitWhitespace(Tail(s), <<>>)
         ELSE SplitWhitespace(Tail(s), Append(cur, Head(s)))

\* MaskHit::from_export_tsv
MaskHitFromExportTsv(tsv_line) ==
    [seq_acc |-> tsv_line[1], seq_start |-> tsv_line[2], seq_end |-> tsv_line[3],
     repeat_str |-> tsv_line[4], repeat_length |-> tsv_line[5]]

\* MaskHit::to_bed_fmt
MaskHitToBedFmt(hit) ==
    <<hit.seq_acc, hit.seq_start, hit.seq_end, hit.repeat_str, hit.repeat_length>>

\* MaskHit::get_acc
MaskHitGetAcc(hit) == hit.seq_acc

\* fields.join("\t")
RECURSIVE JoinTab(_)
JoinTab(fields) ==
    IF fields = <<>> THEN <<>>
    ELSE IF Len(fields) = 1 THEN Head(fields)
    ELSE Head(fields) \o <<"\t">> \o JoinTab(Tail(fields))

\* the line prep_beds writes for an output: its bed fields joined by tabs, and a newline
BedLine(output) == JoinTab(MaskHitToBedFmt(output)) \o <<"\n">>

\* the name of the file of an accession in target_dir
BedFile(acc) == acc \o <<".bed.bgz">>

\* seen_accs.contains(&out_acc), never true
ContainsNever(accs, out_acc) == FALSE

\* seen_accs.contains(&out_acc)
Contains(accs, out_acc) == \E i \in 1..Len(accs) : accs[i] = out_acc

\* File::create: the file is there and empty, whatever it held
FileCreate(d, name) == [n \in DOMAIN d \cup {name} |-> IF n = name THEN <<>> ELSE d[n]]

\* write_all through the writer on file name; the temporary file is not in target_dir
WriteAll(d, name, bytes) ==
    IF name = TempFile THEN d ELSE [d EXCEPT ![name] = Append(@, bytes)]

\* prep_beds, one turn of the loop over the lines of the input
PrepBedsLine ==
    /\ pc = "prep_lines"
    /\ line_no < Len(in_tsv)
    /\ line_no' = line_no + 1
    /\ LET line == in_tsv[line_no + 1]
           fields == SplitWhitespace(line, <<>>)
           output == MaskHitFromExportTsv(fields)
           out_acc == MaskHitGetAcc(output)
       IN IF StartsWithHash(line)
          THEN UNCHANGED <<pc, current_acc, seen_accs, out_f, target_dir, created>>
          ELSE IF out_acc # current_acc /\ Contains(seen_accs, out_acc)
          THEN /\ pc' = "prep_panic"
               /\ UNCHANGED <<current_acc, seen_accs, out_f, target_dir, created>>
          ELSE IF out_acc # current_acc
          THEN /\ seen_accs' = Append(seen_accs, out_acc)
               /\ current_acc' = out_acc
               /\ out_f' = BedFile(out_acc)
               /\ created' = Append(created, BedFile(out_acc))
               /\ target_dir' = WriteAll(FileCreate(target_dir, BedFile(out_acc)),
                                         BedFile(out_acc), BedLine(output))
               /\ UNCHANGED pc
          ELSE /\ target_dir' = WriteAll(target_dir, out_f, BedLine(output))
               /\ UNCHANGED <<pc, current_acc, seen_accs, out_f, created>>
    /\ UNCHANGED <<files, fidx, virt_pos, index_vars, idx_file, query, result, env_vars,
                   in_tsv>>

\* prep_beds, the input at its end: Ok(())
PrepBedsEnd ==
    /\ pc = "prep_lines"
    /\ line_no = Len(in_tsv)
    /\ pc' = "prep_ok"
    /\ UNCHANGED <<files, fidx, virt_pos, index_vars, idx_file, query, result, env_vars,
                   prep_vars>>

\* prep_beds called on an input TSV of at most MaxLines lines
InitPrep ==
    /\ pc = "prep_lines"
    /\ InitIndex
    /\ \E tsv \in TsvsUpTo(MaxLines) : PrepBedsStart(tsv)

NextPrep ==
    \/ PrepBedsLine
    \/ PrepBedsEnd

SpecPrep == InitPrep /\ [][NextPrep]_vars

(* ----------------------- runs with a crowded tile ----------------------- *)

\* a turn of the while loop, for data files of MaxTileRecs lines in all, every
\* line a record of contig <<1>> that starts in the first two tiles and ends with
\* the second
ReadLineCrowded(start_bp) ==
    /\ NumRecs < MaxTileRecs
    /\ \E fam \in Families, nrph \in Flags :
           IngestLine(<<1>>, start_bp, 2 * TileSize, fam, nrph)

\* the runs with a crowded tile: queries whose first tile is the second tile
NextCrowded ==
    \/ OpenFile
    \/ \E start_bp \in 0..(2 * TileSize - 1) : ReadLineCrowded(start_bp)
    \/ EndOfFile
    \/ SaveIndexStep
    \/ InitSearch
    \/ \E q_start \in TileSize..(2 * TileSize - 1), q_end \in (TileSize + 1)..(2 * TileSize) :
           /\ q_start < q_end
           /\ SearchStep(<<1>>, q_start, q_end, None, FALSE)

SpecCrowded == Init /\ [][NextCrowded]_vars


(* ====================== properties of the index ======================== *)

\* the range build_idx makes of the line at (1-based) position p of (1-based) file f
RangeOfLine(f, p) ==
    [bed_idx |-> f - 1, start_bp |-> files[f][p].start, end_bp |-> files[f][p].end,
     bgzf_pos |-> p - 1]

\* every record ingested so far, as the range made of it
IngestedRanges == {RangeOfLine(f, p) : <<f, p>> \in
                      {fp \in (1..Len(files)) \X (1..MaxRecs) : fp[2] <= Len(files[fp[1]])}}

\* the contig named by the line a range was made of
ContigOf(r) == LineAt(r).contig

\* the record is held by some tile of the written index
Indexed(r) == \E i \in 1..Len(idx_file.ranges) : idx_file.ranges[i] = r

\* r was ingested before q: an earlier file, or an earlier line of the same file
InsertedBefore(r, q) ==
    \/ r.bed_idx < q.bed_idx
    \/ r.bed_idx = q.bed_idx /\ r.bgzf_pos < q.bgzf_pos

\* the names of the contigs the data files hold
BuiltNames == {ContigOf(r) : r \in IngestedRanges}

\* a search has returned for a contig of the index
Answered == pc = "done" /\ query.contig \in BuiltNames

\* tile_counts of the queried contig
QueryTileCount == tile_counts[contig_lookup[query.contig] + 1]

\* first_tile and (unclamped) last_tile of the query
QueryFirstTile == query.start \div TileSize

QueryLastTile == (query.end - 1) \div TileSize

NoFilter == query.family = None /\ ~query.nrph

\* the number of times range r occurs in the result
Occurrences(r) == Cardinality({i \in 1..Len(result.hits) : result.hits[i] = r})

\* C1: a query whose first tile is an indexed tile of its contig, without filters,
\* returns every indexed record of the contig with q_start <= start_bp < q_end
C1_Completeness ==
    (Answered /\ NoFilter /\ query.start < query.end /\ QueryFirstTile < QueryTileCount)
        => /\ result.kind = "ok"
           /\ \A r \in IngestedRanges :
                  (/\ ContigOf(r) = query.contig
                   /\ Indexed(r)
                   /\ query.start <= r.start_bp
                   /\ r.start_bp < query.end) => Occurrences(r) >= 1

\* C2: every record a search returns has q_start <= start_bp < q_end
C2_Soundness ==
    (pc = "done" /\ result.kind = "ok")
        => \A i \in 1..Len(result.hits) :
               /\ query.start <= result.hits[i].start_bp
               /\ result.hits[i].start_bp < query.end

\* C3: the records of a result are in ascending start_bp order, and records of
\* equal start_bp are in the order they were ingested
C3_Ordered ==
    (pc = "done" /\ result.kind = "ok")
        => \A i, j \in 1..Len(result.hits) :
               i < j => \/ result.hits[i].start_bp < result.hits[j].start_bp
                        \/ /\ result.hits[i].start_bp = result.hits[j].start_bp
                           /\ InsertedBefore(result.hits[i], result.hits[j])

\* C3 witness: a result holding two records of equal start_bp
C3_Witness ==
    /\ pc = "done"
    /\ result.kind = "ok"
    /\ \E i, j \in 1..Len(result.hits) :
           i < j /\ result.hits[i].start_bp = result.hits[j].start_bp

\* C4: no record, identified by data file index and record pointer, is returned twice
C4_NoDuplicates ==
    (pc = "done" /\ result.kind = "ok")
        => \A i, j \in 1..Len(result.hits) :
               (/\ result.hits[i].bed_idx = result.hits[j].bed_idx
                /\ result.hits[i].bgzf_pos = result.hits[j].bgzf_pos) => i = j

\* C4 witness: a query over three tiles returns a record that is held by all of them
C4_Witness ==
    /\ Answered
    /\ result.kind = "ok"
    /\ QueryFirstTile + 2 <= Min(QueryLastTile, QueryTileCount - 1)
    /\ \E i \in 1..Len(result.hits) :
           /\ result.hits[i].start_bp \div TileSize <= QueryFirstTile
           /\ (result.hits[i].end_bp - 1) \div TileSize >= QueryFirstTile + 2

\* C5: the query [0, tile_count * tile_size) of a contig returns every indexed
\* record of the contig exactly once
C5_RoundTrip ==
    (Answered /\ NoFilter /\ query.start = 0 /\ query.end = QueryTileCount * TileSize)
        => /\ result.kind = "ok"
           /\ \A r \in IngestedRanges :
                  (ContigOf(r) = query.contig /\ Indexed(r)) => Occurrences(r) = 1

\* the tiles of the contig named name, as built
BuiltTiles(name) == contigs[contig_lookup[name] + 1].contig_tiles

\* C6: while and after building, every tile from floor(s / tile_size) to
\* floor((e - 1) / tile_size) of a record's contig holds exactly one range with the
\* record's file index and pointer, and the contig has at least that many tiles
C6_Replication ==
    pc \in {"next_file", "read", "saved"}
        => \A r \in IngestedRanges :
               /\ ContigOf(r) \in DOMAIN contig_lookup
               /\ contigs[contig_lookup[ContigOf(r)] + 1].name = ContigOf(r)
               /\ Len(BuiltTiles(ContigOf(r))) >= (r.end_bp - 1) \div TileSize + 1
               /\ \A t \in (r.start_bp \div TileSize)..((r.end_bp - 1) \div TileSize) :
                      Cardinality({i \in 1..Len(BuiltTiles(ContigOf(r))[t + 1]) :
                          /\ BuiltTiles(ContigOf(r))[t + 1][i].bed_idx = r.bed_idx
                          /\ BuiltTiles(ContigOf(r))[t + 1][i].bgzf_pos = r.bgzf_pos}) = 1

\* C6 witness: the build is over and a record spans three tiles
C6_Witness ==
    /\ pc = "saved"
    /\ \E r \in IngestedRanges : (r.end_bp - 1) \div TileSize >= r.start_bp \div TileSize + 2

\* the ranges the index file holds for the k-th tile (1-based, row-major over contigs
\* and tiles), cut out with the range counts of the header
WrittenTile(k) ==
    SubSeq(idx_file.ranges, SumSeq(SubSeq(idx_file.range_counts, 1, k - 1)) + 1,
           SumSeq(SubSeq(idx_file.range_counts, 1, k)))

\* the contig (1-based) and tile (0-based) of the k-th tile of the index file
ContigOfTile(k) ==
    CHOOSE c \in 1..Len(idx_file.tile_counts) :
        /\ SumSeq(SubSeq(idx_file.tile_counts, 1, c - 1)) < k
        /\ k <= SumSeq(SubSeq(idx_file.tile_counts, 1, c))

TileOfTile(k) == k - 1 - SumSeq(SubSeq(idx_file.tile_counts, 1, ContigOfTile(k) - 1))

\* C7: in the written index the start_bp values of every tile are non-decreasing,
\* and the header's range counts are the numbers of ranges written: they add up to
\* the ranges of the file and cut it into tiles that hold only ranges of that tile
C7_TileOrder ==
    pc \in {"saved", "loaded", "done"}
        => /\ Len(idx_file.range_counts) = SumSeq(idx_file.tile_counts)
           /\ Len(idx_file.ranges) = SumSeq(idx_file.range_counts)
           /\ \A k \in 1..Len(idx_file.range_counts) :
                  /\ \A i, j \in 1..Len(WrittenTile(k)) :
                         i < j => WrittenTile(k)[i].start_bp <= WrittenTile(k)[j].start_bp
                  /\ \A i \in 1..Len(WrittenTile(k)) :
                         /\ DecodeName(idx_file.names[ContigOfTile(k)])
                                = ContigOf(WrittenTile(k)[i])
                         /\ WrittenTile(k)[i].start_bp \div TileSize <= TileOfTile(k)
                         /\ TileOfTile(k) <= (WrittenTile(k)[i].end_bp - 1) \div TileSize

\* C7 witness: an index is written of a tile whose ranges were ingested in descending order
C7_Witness ==
    /\ pc = "saved"
    /\ \E c \in 1..Len(contigs) : \E t \in 1..Len(contigs[c].contig_tiles) :
           /\ Len(contigs[c].contig_tiles[t]) >= 2
           /\ contigs[c].contig_tiles[t][1].start_bp > contigs[c].contig_tiles[t][2].start_bp

\* C8: a query for a contig that is not in the index returns an error and no lines
C8_UnknownContig ==
    (pc = "done" /\ query.contig \notin BuiltNames)
        => result.kind = "err" /\ result.lines = <<>>

\* C9: a query whose first tile is not below the contig's tile count returns an error
C9_OutOfRange ==
    (Answered /\ QueryFirstTile >= QueryTileCount) => result.kind = "err"

\* C10: a query that starts in an indexed tile and ends beyond the last one succeeds
\* with the result of the query cut at the end of the last indexed tile
C10_ClampedEnd ==
    (Answered /\ QueryFirstTile < QueryTileCount /\ QueryLastTile > QueryTileCount - 1)
        => /\ result.kind = "ok"
           /\ result = Search(dir, idx_file, tile_size, contig_lookup, tile_counts,
                              range_counts, range_data_index, query.contig, query.start,
                              QueryTileCount * TileSize, query.family, query.nrph)

\* C10 witness: such a query returns a record of the last indexed tile
C10_Witness ==
    /\ Answered
    /\ QueryFirstTile < QueryTileCount - 1
    /\ QueryLastTile > QueryTileCount - 1
    /\ result.kind = "ok"
    /\ \E i \in 1..Len(result.hits) :
           result.hits[i].start_bp \div TileSize = QueryTileCount - 1


(* ------------------------- first-tile replicas -------------------------- *)

\* the tile a record starts in
StartTileOf(r) == FirstTileIdx(r.start_bp, TileSize)

\* r starts in a tile before the query's first tile, is replicated into that
\* tile and covers the whole query interval
CoversFromEarlierTile(r) ==
    /\ ContigOf(r) = query.contig
    /\ StartTileOf(r) < QueryFirstTile
    /\ r.start_bp < query.start
    /\ QueryFirstTile \in RangeTiles(r.start_bp, r.end_bp, TileSize)
    /\ r.end_bp >= query.end

\* the scenario at scale: one file with a record in the first tile and a record
\* from the last base of the first tile to the end of the second, on one contig,
\* queried over the first base of the second tile ([0,1), [1,4) and [2,3) with
\* tile size 2)
ScaledS3 ==
    /\ pc = "done"
    /\ Len(files) = 1 /\ Len(files[1]) = 2
    /\ files[1][1].contig = files[1][2].contig
    /\ files[1][1].start = 0 /\ files[1][1].end = 1
    /\ files[1][2].start = TileSize - 1 /\ files[1][2].end = 2 * TileSize
    /\ query.contig = files[1][1].contig
    /\ query.start = TileSize /\ query.end = TileSize + 1
    /\ NoFilter

\* C11: a record that starts before q_start in an earlier tile, is replicated into
\* the query's first tile and covers the query interval is returned (once) by the
\* first-tile pass; in the scaled scenario the query returns exactly the second
\* record
C11_FirstTileReplica ==
    /\ (Answered /\ NoFilter /\ query.start < query.end)
          => \A r \in IngestedRanges :
                 CoversFromEarlierTile(r) => result.kind = "ok" /\ Occurrences(r) = 1
    /\ ScaledS3 => result.kind = "ok" /\ result.hits = <<RangeOfLine(1, 2)>>

\* C11 witness: the scaled scenario has been queried and returned one record
C11_Witness == ScaledS3 /\ result.kind = "ok" /\ Len(result.hits) = 1


(* ----------------------------- the filters ------------------------------ *)

\* the position of the first period of s, or Len(s) + 1 when it has none
FirstPeriod(s) ==
    CHOOSE i \in 1..(Len(s) + 1) :
        /\ i = Len(s) + 1 \/ s[i] = "."
        /\ \A j \in 1..(i - 1) : s[j] # "."

\* the line passes the checks the query asks for
Passes(line) ==
    /\ query.family # None
          => query.family[1] = SubSeq(line.fam, 1, FirstPeriod(line.fam) - 1)
    /\ query.nrph => line.nrph = "1"

\* what the same query returns without filters
Unfiltered ==
    Search(dir, idx_file, tile_size, contig_lookup, tile_counts, range_counts,
           range_data_index, query.contig, query.start, query.end, None, FALSE)

AsOnlyQuery ==
    LET ci == InitSearchOp(PrepIdx, idx_file)
    IN Search(dir, idx_file, ci.tile_size, ci.contig_lookup, ci.tile_counts,
              ci.range_counts, ci.range_data_index, query.contig, query.start,
              query.end, query.family, query.nrph)

\* C13: a search_idx invoked after another one in the same process completes and
\* returns what it returns as the only query of the process
C13_IndependentQueries == pc = "done_again" => result = AsOnlyQuery

\* the data directory as it was when the index was built
IndexedDir ==
    [n \in {bgz_files[i].name : i \in DOMAIN bgz_files} |->
        LET i == CHOOSE k \in DOMAIN bgz_files : bgz_files[k].name = n
        IN [mod_time |-> bgz_files[i].mod_time, bytes |-> bgz_files[i].bytes]]

\* C14: a query that logged warnings about the data directory (file missing,
\* other length, other modification time, extra file) is executed all the same
\* and returns what it returns over the directory the index was built from
C14_WarningsNonFatal ==
    (pc = "done" /\ warnings # {})
        => result = Search(IndexedDir, idx_file, tile_size, contig_lookup, tile_counts,
                           range_counts, range_data_index, query.contig, query.start,
                           query.end, query.family, query.nrph)

\* C15: build_idx returns normally only with the whole index on disk: a failure
\* to read a data file, to parse a line, or to create or write the index file
\* never ends in a normal return
C15_BuildFailureFatal ==
    pc = "saved" => idx_file = SaveIndex(tile_size, bgz_files, contigs)


(* ------------------------ the index file, loaded ------------------------ *)

\* the name of the contig with (1-based) index c of the loaded index
LoadedName(c) == CHOOSE name \in DOMAIN contig_lookup : contig_lookup[name] = c - 1

\* the ingested records of contig c (1-based) that overlap tile t (1-based)
RecordsOfTile(c, t) ==
    {r \in IngestedRanges : /\ ContigOf(r) = LoadedName(c)
                            /\ r.start_bp \div TileSize <= t - 1
                            /\ t - 1 <= (r.end_bp - 1) \div TileSize}

\* the number of ranges of the tiles before tile (c, t) in row-major order
RangesBefore(c, t) ==
    SumSeq([i \in 1..(c - 1) |-> SumSeq(range_counts[i])])
        + SumSeq(SubSeq(range_counts[c], 1, t - 1))

\* C16: after init_search, range_data_index[c][t] is 20 + 56 F + 44 C + 4 S plus 28
\* times the number of ranges of the tiles before (c, t), and at that byte offset
\* the index file holds the ranges save_index wrote for tile (c, t)
C16_OffsetTable ==
    pc \in {"loaded", "done"}
        => \A c \in 1..contig_count : \A t \in 1..tile_counts[c] :
               LET off == range_data_index[c][t]
                   k == (off - RangeRegionStart(idx_file)) \div 28
               IN /\ off = 20 + 56 * Len(bgz_files) + 44 * contig_count
                               + 4 * SumSeq(tile_counts) + 28 * RangesBefore(c, t)
                  /\ off >= RangeRegionStart(idx_file)
                  /\ (off - RangeRegionStart(idx_file)) % 28 = 0
                  /\ k + range_counts[c][t] <= Len(idx_file.ranges)
                  /\ {idx_file.ranges[k + i] : i \in 1..range_counts[c][t]}
                         = RecordsOfTile(c, t)
                  /\ range_counts[c][t] = Cardinality(RecordsOfTile(c, t))

\* C16 witness: a loaded index of two contigs whose second contig has a tile
\* with ranges behind ranges of the first
C16_Witness ==
    /\ pc = "loaded"
    /\ contig_count = 2
    /\ \E t \in 1..tile_counts[2] :
           /\ range_counts[2][t] > 0
           /\ range_data_index[2][t] > RangeRegionStart(idx_file)

\* s holds the elements of b in non-decreasing start_bp order, equal ones in the
\* order of b
SortedFrom(s, b) ==
    /\ Len(s) = Len(b)
    /\ \A i \in 1..Len(b) : \E j \in 1..Len(s) : s[j] = b[i]
    /\ \A i, j \in 1..Len(s) : i < j => s[i].start_bp <= s[j].start_bp
    /\ \A i, j \in 1..Len(b) :
           (i < j /\ b[i].start_bp = b[j].start_bp)
               => \E x, y \in 1..Len(s) : x < y /\ s[x] = b[i] /\ s[y] = b[j]

\* C17: loading the saved index gives the tile size, contig count, tile counts,
\* range counts and file descriptors of the built index, and read_tile(c, t)
\* returns the ranges of the built tile (c, t) sorted by start_bp
C17_IndexRoundTrip ==
    [][(pc = "saved" /\ pc' = "loaded")
         => /\ tile_size' = tile_size
            /\ contig_count' = Len(contigs)
            /\ bgz_files' = bgz_files
            /\ Len(tile_counts') = Len(contigs)
            /\ Len(range_counts') = Len(contigs)
            /\ \A c \in 1..Len(contigs) :
                   /\ contig_lookup'[contigs[c].name] = c - 1
                   /\ tile_counts'[c] = Len(contigs[c].contig_tiles)
                   /\ Len(range_counts'[c]) = Len(contigs[c].contig_tiles)
                   /\ \A t \in 1..Len(contigs[c].contig_tiles) :
                          /\ range_counts'[c][t] = Len(contigs[c].contig_tiles[t])
                          /\ SortedFrom(ReadTile(idx_file, range_counts',
                                                 range_data_index', c - 1, t - 1),
                                        contigs[c].contig_tiles[t])]_vars

\* C17 witness: a loaded index of two files with a tile of two ranges that were
\* ingested in descending start_bp order
C17_Witness ==
    /\ pc = "loaded"
    /\ Len(bgz_files) = 2
    /\ \E c \in 1..contig_count : \E t \in 1..tile_counts[c] :
           /\ range_counts[c][t] = 2
           /\ \E r, q \in RecordsOfTile(c, t) :
                  InsertedBefore(r, q) /\ r.start_bp > q.start_bp


(* --------------------------- zero-length records ------------------------ *)

\* the (0-based) tiles of the built index that hold the range of record r
TilesHolding(r) ==
    {t \in 0..(Len(BuiltTiles(ContigOf(r))) - 1) :
        \E i \in 1..Len(BuiltTiles(ContigOf(r))[t + 1]) :
            BuiltTiles(ContigOf(r))[t + 1][i] = r}

\* C18: a record with end_bp = start_bp > 0 is stored in exactly one tile, the
\* tile floor(start_bp / tile_size), also when start_bp is a multiple of tile_size
C18_ZeroLength ==
    pc \in {"next_file", "read", "saved"}
        => \A r \in IngestedRanges :
               (r.end_bp = r.start_bp /\ r.start_bp > 0)
                   => TilesHolding(r) = {r.start_bp \div TileSize}


(* ---------------------------- record pointers --------------------------- *)

\* range x, held for the contig named name, points at the line it was parsed
\* from: reading one line at its position in its file gives that line
PointsAtItsLine(x, name) ==
    /\ x.bed_idx + 1 \in 1..Len(files)
    /\ x.bgzf_pos + 1 \in 1..Len(files[x.bed_idx + 1])
    /\ LineAt(x).contig = name
    /\ LineAt(x).start = x.start_bp
    /\ LineAt(x).end = x.end_bp

\* C19: every range, in the tiles being built and in the index file, carries the
\* reader position taken before its line was read: seeking there and reading one
\* line gives the line the range was parsed from, and a search returns those lines
C19_RecordPointer ==
    /\ pc = "read" => virt_pos = Len(files[fidx + 1])
    /\ pc \in {"next_file", "read", "saved"}
          => \A c \in 1..Len(contigs) : \A t \in 1..Len(contigs[c].contig_tiles) :
                 \A i \in 1..Len(contigs[c].contig_tiles[t]) :
                     PointsAtItsLine(contigs[c].contig_tiles[t][i], contigs[c].name)
    /\ pc \in {"saved", "loaded", "done"}
          => \A k \in 1..Len(idx_file.range_counts) : \A i \in 1..Len(WrittenTile(k)) :
                 PointsAtItsLine(WrittenTile(k)[i],
                                 DecodeName(idx_file.names[ContigOfTile(k)]))
    /\ (pc = "done" /\ result.kind = "ok")
          => \A i \in 1..Len(result.hits) :
                 /\ PointsAtItsLine(result.hits[i], query.contig)
                 /\ result.lines[i] = LineAt(result.hits[i])

\* C19 witness: a search returned the second line of the second data file
C19_Witness ==
    /\ pc = "done"
    /\ result.kind = "ok"
    /\ \E i \in 1..Len(result.hits) :
           /\ result.hits[i].bed_idx = 1
           /\ result.hits[i].bgzf_pos = 1
           /\ result.lines[i] = files[2][2]


(* ------------------------- contig and file indices ---------------------- *)

\* the first ingested record of the contig named name
FirstRecordOf(name) ==
    CHOOSE r \in IngestedRanges :
        /\ ContigOf(r) = name
        /\ \A q \in IngestedRanges : ContigOf(q) = name => ~InsertedBefore(q, r)

\* every range held by some tile of the index being built
BuiltRanges ==
    UNION {{contigs[c].contig_tiles[t][i] : i \in 1..Len(contigs[c].contig_tiles[t])} :
              <<c, t>> \in {ct \in (1..Len(contigs)) \X (1..(MaxBp \div TileSize + 1)) :
                               ct[2] <= Len(contigs[ct[1]].contig_tiles)}}

\* C20: contig indices are 0..C-1 in order of first appearance and the lookup
\* table is their inverse; file indices are 0..F-1 in ingestion order, and the
\* data_file_index of every range is the place, in the descriptor table, of the
\* file its line was read from
C20_DenseIndices ==
    pc \in {"next_file", "read", "saved"}
        => /\ DOMAIN contig_lookup = BuiltNames
           /\ Len(contigs) = Cardinality(BuiltNames)
           /\ \A name \in DOMAIN contig_lookup :
                  /\ contig_lookup[name] \in 0..(Len(contigs) - 1)
                  /\ contigs[contig_lookup[name] + 1].name = name
           /\ \A i \in 1..Len(contigs) : contig_lookup[contigs[i].name] = i - 1
           /\ \A i, j \in 1..Len(contigs) :
                  i < j => InsertedBefore(FirstRecordOf(contigs[i].name),
                                          FirstRecordOf(contigs[j].name))
           /\ Len(bgz_files) = Len(files)
           /\ fidx = IF pc = "read" THEN Len(files) - 1 ELSE Len(files)
           /\ \A k \in 1..Len(bgz_files) : bgz_files[k].name = FileName(k - 1)
           /\ BuiltRanges = {r \in IngestedRanges :
                                RangeTiles(r.start_bp, r.end_bp, TileSize) # {}}
           /\ \A x \in BuiltRanges : x.bed_idx + 1 \in 1..Len(bgz_files)

\* C20 witness: the build is over, the contig seen second comes first in the
\* order of names, and its record is in the second of two files
C20_Witness ==
    /\ pc = "saved"
    /\ Len(bgz_files) = 2
    /\ Len(contigs) = 2
    /\ contig_lookup[<<2>>] = 0
    /\ contig_lookup[<<1>>] = 1
    /\ \E x \in BuiltRanges : x.bed_idx = 1 /\ ContigOf(x) = <<1>>


(* ------------------------------ tile counts ----------------------------- *)

\* the highest end_bp among the ingested records of the contig named name
MaxEndOf(name) ==
    CHOOSE e \in 1..MaxBp :
        /\ \E r \in IngestedRanges : ContigOf(r) = name /\ r.end_bp = e
        /\ \A r \in IngestedRanges : ContigOf(r) = name => r.end_bp <= e

\* ceil(a / b) for b > 0
CeilDiv(a, b) == (a + b - 1) \div b

\* C21: every contig has exactly ceil(max end_bp of its records / tile_size) tiles,
\* while building, in the written index and in the loaded one
C21_TileCount ==
    /\ pc \in {"next_file", "read", "saved"}
          => \A c \in 1..Len(contigs) :
                 Len(contigs[c].contig_tiles) = CeilDiv(MaxEndOf(contigs[c].name), TileSize)
    /\ pc \in {"saved", "loaded", "done"}
          => \A c \in 1..Len(idx_file.tile_counts) :
                 idx_file.tile_counts[c]
                     = CeilDiv(MaxEndOf(DecodeName(idx_file.names[c])), TileSize)
    /\ pc \in {"loaded", "done"}
          => \A name \in DOMAIN contig_lookup :
                 tile_counts[contig_lookup[name] + 1] = CeilDiv(MaxEndOf(name), TileSize)

\* C21 witness: a contig whose record with the highest end was ingested first,
\* that end not being a multiple of the tile size
C21_Witness ==
    /\ pc = "saved"
    /\ \E r, q \in IngestedRanges :
           /\ ContigOf(r) = ContigOf(q)
           /\ InsertedBefore(r, q)
           /\ r.end_bp > q.end_bp + TileSize
           /\ r.end_bp % TileSize # 0
           /\ Len(BuiltTiles(ContigOf(r))) = CeilDiv(r.end_bp, TileSize)


(* ------------------------ readers and the frame ------------------------- *)

\* C22: a query never has more than one data-file reader open at a time, however
\* many lines it fetches in the first-tile pass and in the later tiles
C22_OneReader ==
    pc = "done"
        => /\ open_peak <= 1
           /\ (result.kind = "ok" /\ Len(result.hits) >= 1) => open_peak = 1

\* C22 witness: a query that fetched a line in its first tile and one in a later tile
C22_Witness ==
    /\ pc = "done"
    /\ result.kind = "ok"
    /\ Len(result.hits) = 2
    /\ result.hits[1].start_bp \div TileSize = QueryFirstTile
    /\ result.hits[2].start_bp \div TileSize > QueryFirstTile
    /\ open_peak = 1

\* C23: a search, whether it returns lines, an error or panics, leaves tile_size,
\* tile_counts, range_counts, range_data_index, contig_lookup and the file
\* descriptors as they were, and the index file and the data files unwritten
C23_ReadOnly ==
    [][(pc = "loaded" /\ pc' = "done")
         => /\ tile_size' = tile_size
            /\ contig_count' = contig_count
            /\ tile_counts' = tile_counts
            /\ range_counts' = range_counts
            /\ range_data_index' = range_data_index
            /\ contig_lookup' = contig_lookup
            /\ bgz_files' = bgz_files
            /\ idx_file' = idx_file
            /\ files' = files
            /\ dir' = dir]_vars

\* C23 witness: a search over an index with ranges has returned an error
C23_Witness ==
    /\ pc = "done"
    /\ result.kind = "err"
    /\ Len(idx_file.ranges) >= 1
    /\ contig_count >= 1


(* ------------------------------ later tiles ----------------------------- *)

\* C24: a query spanning several tiles returns, from every tile after its first
\* one up to its last, the records that start in that tile before q_end, whatever
\* the first tile holds
C24_LaterTilesScanned ==
    (Answered /\ NoFilter /\ QueryFirstTile < QueryTileCount)
        => /\ result.kind = "ok"
           /\ \A r \in IngestedRanges :
                  (/\ ContigOf(r) = query.contig
                   /\ Indexed(r)
                   /\ QueryFirstTile < StartTileOf(r)
                   /\ StartTileOf(r) <= QueryLastTile
                   /\ r.start_bp < query.end) => Occurrences(r) = 1


(* ----------------------------- binary search ---------------------------- *)

\* the first tile of the query, as read_tile returns it
QueryTile ==
    ReadTile(idx_file, range_counts, range_data_index, contig_lookup[query.contig],
             QueryFirstTile)

\* the smallest index (0-based) of s with start_bp >= q_end, Len(s) when none
FirstNotBelow(s, q_end) ==
    CHOOSE k \in 0..Len(s) :
        /\ k = Len(s) \/ s[k + 1].start_bp >= q_end
        /\ \A i \in 1..k : s[i].start_bp < q_end

\* C25: on the sorted first tile the binary search ends with left at the smallest
\* index whose start_bp >= q_end (the tile length when there is none), indices
\* below it being exactly the ranges with start_bp < q_end, and those are what the
\* first-tile pass returns
C25_BinarySearch ==
    (Answered /\ QueryFirstTile < QueryTileCount /\ Len(QueryTile) >= 1)
        => LET left == BinarySearch(QueryTile, 0, Len(QueryTile), query.end)
           IN /\ left = FirstNotBelow(QueryTile, query.end)
              /\ \A i \in 1..Len(QueryTile) :
                     QueryTile[i].start_bp < query.end <=> i <= left
              /\ (NoFilter /\ QueryLastTile = QueryFirstTile)
                    => result.hits = SubSeq(QueryTile, 1, left)

\* C25 witness: a tile of four ranges, the last two of equal start_bp at q_end
C25_Witness ==
    /\ Answered
    /\ Len(QueryTile) = 4
    /\ QueryTile[3].start_bp = query.end
    /\ QueryTile[4].start_bp = query.end
    /\ QueryTile[1].start_bp < QueryTile[2].start_bp
    /\ QueryTile[2].start_bp < query.end
    /\ Len(result.hits) = 2


(* -------------------------------- overlap ------------------------------- *)

\* C26: every record a search returns overlaps the query interval: it starts
\* before q_end and ends after q_start (a record with end_bp = start_bp counting
\* as its one base)
C26_Overlap ==
    (pc = "done" /\ result.kind = "ok")
        => \A i \in 1..Len(result.hits) :
               /\ result.hits[i].start_bp < query.end
               /\ Max(result.hits[i].end_bp, result.hits[i].start_bp + 1) > query.start


(* ---------------------------- repeated builds --------------------------- *)

\* the index file build_idx writes from the data files, starting from prep_idx
FileOfData ==
    LET ci == BuildIdx(PrepIdx, files, 0)
    IN SaveIndex(ci.tile_size, ci.bgz_files, ci.contigs)

\* C27: the index file a second build_idx leaves is the one the data files
\* determine: every data file once in the descriptor table, every record once in
\* each tile it overlaps
C27_Repeatable ==
    pc = "rebuilt"
        => /\ idx_file = FileOfData
           /\ idx_file.file_count = Len(files)
           /\ \A r \in IngestedRanges :
                  Cardinality({i \in 1..Len(idx_file.ranges) : idx_file.ranges[i] = r})
                      = Cardinality(RangeTiles(r.start_bp, r.end_bp, TileSize))


(* ------------------------------ offset width ---------------------------- *)

\* C28: the offset the loader computes for every tile is the byte offset of the
\* tile in the index file, for every index the builder writes
C28_NoWrap ==
    pc \in {"loaded", "done"}
        => \A c \in 1..contig_count : \A t \in 1..tile_counts[c] :
               range_data_index[c][t]
                   = RangeRegionStart(idx_file) + RangeBytes * RangesBefore(c, t)


(* ------------------------------ contig names ---------------------------- *)

\* the index build_idx gave the contig: the number of contigs that appeared
\* before it in the data files
BuildIndexOf(name) ==
    Cardinality({n \in BuiltNames :
                    InsertedBefore(FirstRecordOf(n), FirstRecordOf(name))})

\* C29: after build, save and load, the lookup table maps every contig name of
\* the data files to the index the build gave it
C29_NamesRoundTrip ==
    pc \in {"loaded", "done"}
        => \A name \in BuiltNames :
               /\ name \in DOMAIN contig_lookup
               /\ contig_lookup[name] = BuildIndexOf(name)


(* -------------------------------- prep_beds ----------------------------- *)

\* the accession of a line of a masks export: its first field
AccOfLine(line) == SplitWhitespace(line, <<>>)[1]

\* the places of the first n lines of the input that hold a record
RecordPlaces(n) == {i \in 1..n : ~StartsWithHash(in_tsv[i])}

\* the records of the input come accession by accession: none between two
\* records of one accession is of another
Grouped ==
    \A i, j, k \in RecordPlaces(Len(in_tsv)) :
        i < j /\ j < k /\ AccOfLine(in_tsv[i]) = AccOfLine(in_tsv[k])
            => AccOfLine(in_tsv[j]) = AccOfLine(in_tsv[i])

\* a record as a line of a bed file: its fields, tabs between them, a newline
AsBedLine(line) == JoinTab(SplitWhitespace(line, <<>>)) \o <<"\n">>

\* the records of accession acc among the first n lines of the input, in input
\* order, as lines of a bed file
RECURSIVE BedLinesOf(_, _)
BedLinesOf(acc, n) ==
    IF n = 0 THEN <<>>
    ELSE IF n \in RecordPlaces(n) /\ AccOfLine(in_tsv[n]) = acc
         THEN Append(BedLinesOf(acc, n - 1), AsBedLine(in_tsv[n]))
         ELSE BedLinesOf(acc, n - 1)

\* the files of target_dir are those of the accessions among the first n lines,
\* each created once and holding the records of its accession, in input order
SplitUpTo(n) ==
    /\ DOMAIN target_dir = {BedFile(AccOfLine(in_tsv[i])) : i \in RecordPlaces(n)}
    /\ {created[i] : i \in 1..Len(created)} = DOMAIN target_dir
    /\ Len(created) = Cardinality(DOMAIN target_dir)
    /\ \A i \in RecordPlaces(n) :
           target_dir[BedFile(AccOfLine(in_tsv[i]))] = BedLinesOf(AccOfLine(in_tsv[i]), n)

\* C30: prep_beds on an input grouped by accession ends with one file per
\* accession, created once and holding the records of the accession in input
\* order; on an input where an accession comes back after another it fails at
\* the record that comes back, and the files written until then are as they were
C30_SplitByAccession ==
    /\ pc = "prep_ok" => Grouped /\ SplitUpTo(Len(in_tsv))
    /\ pc = "prep_panic" => ~Grouped /\ SplitUpTo(line_no - 1)

\* prep_beds has ended on an input with a comment and the records of two
\* accessions, two of them of one accession
C30_Witness ==
    /\ pc = "prep_ok"
    /\ \E i \in 1..Len(in_tsv) : StartsWithHash(in_tsv[i])
    /\ Cardinality(DOMAIN target_dir) = 2
    /\ \E name \in DOMAIN target_dir : Len(target_dir[name]) = 2


====
